---- MODULE Spec2Model ----
(***************************************************************************)
(* useCountdown (packages/core/useCountdown/index.ts): a countdown that    *)
(* ticks a counter down to zero on an interval scheduler (useIntervalFn),  *)
(* with reset / stop / start / pause / resume controls and the onTick and  *)
(* onComplete callbacks.                                                   *)
(*                                                                         *)
(* The controller state is remaining, isActive and the scheduler's timer   *)
(* handle.  The user callbacks are inputs of a tick: each is a short       *)
(* script of controller operations it calls re-entrantly, and onTick may   *)
(* throw.  The remaining variables are observations of the last step and   *)
(* of the current run; they record what happened and never influence the   *)
(* controller.                                                             *)
(***************************************************************************)
EXTENDS Integers, Sequences, FiniteSets, TLC

\* largest initial countdown value
MaxN == 2
\* most controller calls the callbacks of one tick make, taken together
MaxScript == 1
\* onTick may throw only while fewer than MaxTicks ticks ran since the last reset
MaxTicks == 3

VARIABLES
    initialCountdown,   \* current value of the initialCountdown source (toValue)
    immediate,          \* options.immediate ?? false
    constructedWith,    \* toValue(initialCountdown) as read at construction
    remaining,          \* remaining.value
    isActive,           \* intervalController.isActive.value
    timer,              \* the scheduler holds an armed interval timer
    lastOp,             \* the operation that made the last step
    pre,                \* remaining / isActive just before the last step
    halted,             \* "pause"/"stop" since the last resume()/start() call
    base,               \* remaining as set by the last construction/reset
    ticksSince,         \* ticks since base was set
    completesInRun,     \* onComplete invocations since the run began
    tickSeq,            \* flips on every executed tick
    neverStarted,       \* built with immediate false and no start()/resume() call yet
    obs,                \* what the callbacks of the last tick observed
    run,                \* a run left alone: its start value, ticks, completions
    cb                  \* options.onComplete, the onComplete ref and its watchEffect

vars == << initialCountdown, immediate, constructedWith, remaining, isActive,
           timer, lastOp, pre, halted, base, ticksSince, completesInRun,
           tickSeq, neverStarted, obs, run, cb >>

Values == 0..MaxN

Ops == {"reset", "stop", "start", "pause", "resume"}

\* start() called without an argument
NoArg == -1

\* what a caller can pass to start(initialCountdown?)
Overrides == {NoArg} \cup Values

\* the call sequences a callback can make: none, or up to MaxScript calls
RECURSIVE ScriptsOfLen(_)
ScriptsOfLen(n) ==
    IF n = 0 THEN {<< >>}
    ELSE {Append(s, o) : s \in ScriptsOfLen(n - 1), o \in Ops}

Scripts == UNION {ScriptsOfLen(n) : n \in 0..MaxScript}

Max(a, b) == IF a > b THEN a ELSE b

----------------------------------------------------------------------------
(* The interval scheduler (useIntervalFn), used with a positive interval.  *)

\* pause(): isActive.value = false; clean() clears the timer
intervalPause(c) == [c EXCEPT !.isActive = FALSE, !.timer = FALSE]

\* resume(): isActive.value = true; clean(); timer = setInterval(cb, interval)
intervalResume(c) == [c EXCEPT !.isActive = TRUE, !.timer = TRUE]

----------------------------------------------------------------------------
(* The controller operations, on a record c with the fields remaining,     *)
(* isActive and timer; init is toValue(initialCountdown) at the call.      *)

reset_stale(c, init) == [c EXCEPT !.remaining = constructedWith]

reset(c, init) == [c EXCEPT !.remaining = init]

stop_noPause(c, init) == reset(c, init)

stop_noReset(c, init) == intervalPause(c)

stop(c, init) == reset(intervalPause(c), init)

resume_fromStart(c) ==
    IF ~c.isActive /\ c.remaining > 0
    THEN intervalResume([c EXCEPT !.remaining = constructedWith])
    ELSE c

resume_unguarded(c) ==
    IF ~c.isActive THEN intervalResume(c) ELSE c

resume(c) ==
    IF ~c.isActive
    THEN IF c.remaining > 0 THEN intervalResume(c) ELSE c
    ELSE c

start_guarded(c, init) ==
    IF init > 0 THEN intervalResume(reset(c, init)) ELSE reset(c, init)

start(c, init) == intervalResume(reset(c, init))

startWith_applies(c, init, override) ==
    IF override = NoArg THEN start(c, init)
    ELSE intervalResume(reset(c, override))

\* start(x): the interface declares the parameter, the function takes none
startWith(c, init, override) == start(c, init)

pause_noop(c) == c

\* pause: intervalController.pause
pause(c) == intervalPause(c)

\* const value = remaining.value - 1; remaining.value = value < 0 ? 0 : value
decrement_noClamp(r) == r - 1

decrement_keepsZero(r) == IF r = 0 THEN 0 ELSE Max(r - 2, 0)

decrement(r) == IF r - 1 < 0 THEN 0 ELSE r - 1

----------------------------------------------------------------------------
(* Bookkeeping of the observations around one controller call.             *)

\* c is the state the call of op leaves when made in state st
Book(op, st, c) ==
    LET rebased == op \in {"reset", "stop", "start"}
        newRun  == op = "start" \/ (op = "resume" /\ ~st.isActive /\ c.isActive)
    IN  [c EXCEPT
            !.halted = CASE op \in {"pause", "stop"}   -> op
                         [] op \in {"resume", "start"} -> "none"
                         [] OTHER                      -> st.halted,
            !.base = IF rebased THEN c.remaining ELSE st.base,
            !.ticksSince = IF rebased THEN 0 ELSE st.ticksSince,
            !.completesInRun = IF newRun THEN 0 ELSE st.completesInRun,
            !.neverStarted = st.neverStarted /\ op \notin {"resume", "start"}]

Call(op, st, init) ==
    Book(op, st, CASE op = "reset"  -> reset(st, init)
                   [] op = "stop"   -> stop(st, init)
                   [] op = "start"  -> start(st, init)
                   [] op = "pause"  -> pause(st)
                   [] op = "resume" -> resume(st))

\* a callback body: the calls of its script, in order
RECURSIVE RunScript(_, _, _)
RunScript(s, st, init) ==
    IF s = << >> THEN st
    ELSE RunScript(Tail(s), Call(Head(s), st, init), init)

Cur == [remaining |-> remaining, isActive |-> isActive, timer |-> timer,
        halted |-> halted, base |-> base, ticksSince |-> ticksSince,
        completesInRun |-> completesInRun, neverStarted |-> neverStarted]

\* the state is the one left by stop() or pause(), or by pause() and then
\* resume()
Mark ==
    CASE lastOp \in {"stop", "pause"} -> lastOp
      [] lastOp = "resume" /\ pre.mark = "pause" -> "resumed"
      [] OTHER -> "none"

Snapshot == [remaining |-> remaining, isActive |-> isActive, timer |-> timer,
             initial |-> initialCountdown, arg |-> NoArg, mark |-> Mark]

NoObs == [decremented |-> 0, fired |-> FALSE, activeAtFire |-> FALSE,
          remainingAtFire |-> 0, threw |-> FALSE, onTickSawActive |-> FALSE,
          onTickCall |-> "none", trace |-> << >>]

\* the one call a callback made, "none", or "several"
SoleCall(script) ==
    CASE script = << >>  -> "none"
      [] Len(script) = 1 -> script[1]
      [] OTHER           -> "several"

NoRun == [quiet |-> FALSE, from |-> 0, ticks |-> 0, threw |-> FALSE,
          completes |-> 0]

\* once another operation has followed the tick, the call its onTick made is
\* no longer recorded
Faded(o) == [o EXCEPT !.onTickCall = "none"]

\* write a state record back to the variables
Commit(st) ==
    /\ remaining' = st.remaining
    /\ isActive' = st.isActive
    /\ timer' = st.timer
    /\ halted' = st.halted
    /\ base' = st.base
    /\ ticksSince' = st.ticksSince
    /\ completesInRun' = st.completesInRun
    /\ neverStarted' = st.neverStarted

----------------------------------------------------------------------------
(* The tick callback handed to useIntervalFn.                              *)

noPauseOnComplete(c) == c

\* intervalController.pause() on the completing tick
pauseOnComplete(c) == intervalPause(c)

\* if (remaining.value <= 0)
completed(c) == c.remaining <= 0

\* onTick has run its calls on the decremented state and, unless it threw,
\* the completion test follows
afterOnTick(st, init, onTickScript) ==
    RunScript(onTickScript,
              [st EXCEPT !.remaining = decrement(st.remaining),
                         !.ticksSince = st.ticksSince + 1],
              init)

\* onComplete is invoked on this tick
fires(st, init, onTickScript, throws) ==
    ~throws /\ completed(afterOnTick(st, init, onTickScript))

\* the completion test before onTick, on the value just computed
tick_testsBeforeOnTick(st, init, onTickScript, throws, onCompleteScript) ==
    LET dec == [st EXCEPT !.remaining = decrement(st.remaining),
                          !.ticksSince = st.ticksSince + 1]
        ticked == RunScript(onTickScript, dec, init)
        fired == ~throws /\ completed(dec)
        paused == pauseOnComplete(ticked)
        counted == [paused EXCEPT !.completesInRun = paused.completesInRun + 1]
    IN  [st  |-> IF fired THEN RunScript(onCompleteScript, counted, init)
                 ELSE ticked,
         obs |-> [decremented |-> dec.remaining,
                  onTickSawActive |-> dec.isActive,
                  onTickCall |-> SoleCall(onTickScript),
                  fired |-> fired,
                  activeAtFire |-> IF fired THEN paused.isActive ELSE FALSE,
                  remainingAtFire |-> IF fired THEN ticked.remaining ELSE 0,
                  threw |-> throws,
                  trace |-> IF fired
                            THEN << "decrement", "onTick", "pause", "onComplete" >>
                            ELSE << "decrement", "onTick" >>]]

\* onTick in a try/finally: the completion runs although onTick threw
tick_completesAfterThrow(st, init, onTickScript, throws, onCompleteScript) ==
    LET dec == [st EXCEPT !.remaining = decrement(st.remaining),
                          !.ticksSince = st.ticksSince + 1]
        ticked == RunScript(onTickScript, dec, init)
        fired == completed(ticked)
        paused == pauseOnComplete(ticked)
        counted == [paused EXCEPT !.completesInRun = paused.completesInRun + 1]
    IN  [st  |-> IF fired THEN counted ELSE ticked,
         obs |-> [decremented |-> dec.remaining,
                  onTickSawActive |-> dec.isActive,
                  onTickCall |-> SoleCall(onTickScript),
                  fired |-> fired,
                  activeAtFire |-> IF fired THEN paused.isActive ELSE FALSE,
                  remainingAtFire |-> IF fired THEN ticked.remaining ELSE 0,
                  threw |-> throws,
                  trace |-> IF fired
                            THEN << "decrement", "onTick", "pause", "onComplete" >>
                            ELSE << "decrement", "onTick" >>]]

\* the completion handled before onTick is invoked
tick_onTickLast(st, init, onTickScript, throws, onCompleteScript) ==
    LET dec == [st EXCEPT !.remaining = decrement(st.remaining),
                          !.ticksSince = st.ticksSince + 1]
        fired == completed(dec)
        paused == pauseOnComplete(dec)
        counted == [paused EXCEPT !.completesInRun = paused.completesInRun + 1]
        done == IF fired THEN RunScript(onCompleteScript, counted, init) ELSE dec
    IN  [st  |-> RunScript(onTickScript, done, init),
         obs |-> [decremented |-> dec.remaining,
                  onTickSawActive |-> done.isActive,
                  onTickCall |-> SoleCall(onTickScript),
                  fired |-> fired,
                  activeAtFire |-> IF fired THEN paused.isActive ELSE FALSE,
                  remainingAtFire |-> IF fired THEN dec.remaining ELSE 0,
                  threw |-> throws,
                  trace |-> IF fired
                            THEN << "decrement", "pause", "onComplete", "onTick" >>
                            ELSE << "decrement", "onTick" >>]]

\* the whole tick: st is the state it leaves, obs what its callbacks observed;
\* onTickScript/onCompleteScript are the calls the two callbacks make, throws
\* says that onTick throws after its calls.  The steps, in the order of the
\* code: decrement and clamp; onTick; and, unless onTick threw, the completion
\* test on the value remaining has by then, the pause, onComplete
tick(st, init, onTickScript, throws, onCompleteScript) ==
    LET dec == [st EXCEPT !.remaining = decrement(st.remaining),
                          !.ticksSince = st.ticksSince + 1]
        ticked == afterOnTick(st, init, onTickScript)
        fired == ~throws /\ completed(ticked)
        paused == pauseOnComplete(ticked)
        counted == [paused EXCEPT !.completesInRun = paused.completesInRun + 1]
    IN  [st  |-> IF fired THEN RunScript(onCompleteScript, counted, init)
                 ELSE ticked,
         obs |-> [decremented |-> dec.remaining,
                  onTickSawActive |-> dec.isActive,
                  onTickCall |-> SoleCall(onTickScript),
                  fired |-> fired,
                  activeAtFire |-> IF fired THEN paused.isActive ELSE FALSE,
                  remainingAtFire |-> IF fired THEN ticked.remaining ELSE 0,
                  threw |-> throws,
                  trace |-> IF fired
                            THEN << "decrement", "onTick", "pause", "onComplete" >>
                            ELSE << "decrement", "onTick" >>]]

----------------------------------------------------------------------------

\* useIntervalFn(cb, interval, { immediate }): starts at once when immediate
useIntervalFn(c, imm) == IF imm THEN intervalResume(c) ELSE c

useCountdown_alwaysImmediate(init, imm) ==
    useIntervalFn([remaining |-> init, isActive |-> FALSE, timer |-> FALSE], TRUE)

useCountdown_guarded(init, imm) ==
    useIntervalFn([remaining |-> init, isActive |-> FALSE, timer |-> FALSE],
                  imm /\ init > 0)

\* useCountdown(initialCountdown, options): remaining = ref(toValue(initialCountdown)),
\* then the scheduler is created with immediate: options?.immediate ?? false
useCountdown(init, imm) ==
    useIntervalFn([remaining |-> init, isActive |-> FALSE, timer |-> FALSE], imm)

\* the functions options.onComplete is set to
Callbacks == {"f", "g"}

ref_copies(kind) == FALSE

\* ref(options?.onComplete): vue's ref() returns its argument when that is
\* already a ref, so onComplete is then the option's own ref, not a copy
ref(kind) == kind = "ref"

\* onComplete.value
onCompleteValue(c) == IF c.aliased THEN c.option ELSE c.cell

\* the watchEffect body: onComplete.value = unref(options?.onComplete)
watchEffect(c) ==
    [c EXCEPT !.cell = IF c.aliased THEN c.cell ELSE c.option,
              !.pending = FALSE]

\* options.onComplete.value = fn: the effect is queued, it runs in a later flush
assign(c, fn) == [c EXCEPT !.option = fn, !.pending = TRUE]

\* lines 56-60: the onComplete ref and the first, synchronous run of the effect;
\* kind says whether options.onComplete is a function or a ref of one
onCompleteSetup(kind, fn) ==
    watchEffect([kind |-> kind, option |-> fn, aliased |-> ref(kind),
                 cell |-> fn, pending |-> FALSE, invoked |-> "none",
                 latest |-> "none", inOnTick |-> FALSE])

\* the controller after construction
Constructed ==
    /\ initialCountdown \in Values
    /\ immediate \in BOOLEAN
    /\ constructedWith = initialCountdown
    /\ remaining = useCountdown(initialCountdown, immediate).remaining
    /\ isActive = useCountdown(initialCountdown, immediate).isActive
    /\ timer = useCountdown(initialCountdown, immediate).timer
    /\ lastOp = "construct"
    /\ pre = [remaining |-> initialCountdown, isActive |-> FALSE,
              timer |-> FALSE, initial |-> initialCountdown, arg |-> NoArg,
              mark |-> "none"]
    /\ halted = "none"
    /\ base = initialCountdown
    /\ ticksSince = 0
    /\ completesInRun = 0
    /\ tickSeq = 0
    /\ neverStarted = ~immediate
    /\ obs = NoObs
    /\ run = NoRun

\* the state after construction, onComplete given as a plain function
Init == Constructed /\ cb = onCompleteSetup("plain", "f")

\* the dynamic initialCountdown source gets a new value
SetInitial ==
    /\ \E v \in Values :
        /\ v # initialCountdown
        /\ initialCountdown' = v
    /\ lastOp' = "setInitial"
    /\ pre' = Snapshot
    /\ obs' = Faded(obs)
    /\ UNCHANGED << immediate, constructedWith, remaining, isActive, timer,
                    halted, base, ticksSince, completesInRun, tickSeq,
                    neverStarted, run, cb >>

\* a call of one of the returned operations from outside a tick
UserCall(op) ==
    /\ Commit(Call(op, Cur, initialCountdown))
    /\ lastOp' = op
    /\ pre' = Snapshot
    /\ obs' = Faded(obs)
    /\ UNCHANGED << initialCountdown, immediate, constructedWith, tickSeq, run,
                    cb >>

Reset == UserCall("reset")

Stop == UserCall("stop")

\* start(x), or start() when x is NoArg
Start ==
    /\ \E x \in Overrides :
        /\ Commit(Book("start", Cur, startWith(Cur, initialCountdown, x)))
        /\ pre' = [Snapshot EXCEPT !.arg = x]
    /\ lastOp' = "start"
    /\ obs' = Faded(obs)
    /\ UNCHANGED << initialCountdown, immediate, constructedWith, tickSeq, run,
                    cb >>

Pause == UserCall("pause")

Resume == UserCall("resume")

\* the scheduler's timer fires and runs the tick callback to completion; the
\* callbacks make the calls of a script out of scripts
TickStep(scripts) ==
    /\ timer
    /\ \E onTickScript \in scripts, throws \in BOOLEAN :
        /\ throws => ticksSince < MaxTicks
        \* onComplete makes its calls only on a tick that invokes it
        /\ \E onCompleteScript \in
                 IF fires(Cur, initialCountdown, onTickScript, throws)
                 THEN {c \in scripts : Len(onTickScript) + Len(c) <= MaxScript}
                 ELSE {<< >>} :
             LET t == tick(Cur, initialCountdown, onTickScript, throws,
                           onCompleteScript)
             IN  Commit(t.st) /\ obs' = t.obs
    /\ lastOp' = "tick"
    /\ pre' = Snapshot
    /\ tickSeq' = 1 - tickSeq
    /\ UNCHANGED << initialCountdown, immediate, constructedWith >>

Tick == TickStep(Scripts) /\ UNCHANGED << run, cb >>

Next ==
    \/ SetInitial
    \/ Reset
    \/ Stop
    \/ Start
    \/ Pause
    \/ Resume
    \/ Tick

Spec == Init /\ [][Next]_vars

----------------------------------------------------------------------------
(* A run that is left alone: from some Running state on, nobody calls a    *)
(* control operation, neither the user nor a callback; the interval timer  *)
(* keeps firing while it is armed.                                         *)

\* from now on no control operation is called
LeaveAlone ==
    /\ ~run.quiet
    /\ isActive
    /\ remaining > 0
    /\ run' = [quiet |-> TRUE, from |-> remaining, ticks |-> 0,
               threw |-> FALSE, completes |-> 0]
    /\ UNCHANGED << initialCountdown, immediate, constructedWith, remaining,
                    isActive, timer, lastOp, pre, halted, base, ticksSince,
                    completesInRun, tickSeq, neverStarted, obs, cb >>

\* a control operation called by the user, while the run is not left alone
LiveCall ==
    /\ ~run.quiet
    /\ \E op \in Ops : UserCall(op)

\* a tick whose callbacks call no control operation
LiveTick ==
    /\ TickStep({<< >>})
    /\ run' = IF run.quiet
              THEN [run EXCEPT !.ticks = @ + 1,
                               !.threw = @ \/ obs'.threw,
                               !.completes = @ + (IF obs'.fired THEN 1 ELSE 0)]
              ELSE run
    /\ UNCHANGED cb

LiveNext ==
    \/ SetInitial
    \/ LiveCall
    \/ LeaveAlone
    \/ LiveTick

\* setInterval fires again and again while the timer is armed
LiveSpec == Init /\ [][LiveNext]_vars /\ WF_vars(LiveTick)

----------------------------------------------------------------------------
(* The onComplete option given as a ref and reassigned while the countdown *)
(* runs.                                                                   *)

CbInit == Constructed /\ \E kind \in {"plain", "ref"}, fn \in Callbacks :
                            cb = onCompleteSetup(kind, fn)

\* options.onComplete.value = fn, from outside a tick
Reassign ==
    /\ cb.kind = "ref"
    /\ \E fn \in Callbacks \ {cb.option} : cb' = assign(cb, fn)
    /\ lastOp' = "reassign"
    /\ pre' = Snapshot
    /\ obs' = Faded(obs)
    /\ UNCHANGED << initialCountdown, immediate, constructedWith, remaining,
                    isActive, timer, halted, base, ticksSince, completesInRun,
                    tickSeq, neverStarted, run >>

\* the queued watchEffect runs
Flush ==
    /\ cb.pending
    /\ cb' = watchEffect(cb)
    /\ UNCHANGED << initialCountdown, immediate, constructedWith, remaining,
                    isActive, timer, lastOp, pre, halted, base, ticksSince,
                    completesInRun, tickSeq, neverStarted, obs, run >>

\* a tick whose onTick may set options.onComplete.value; no effect runs
\* before the tick has returned
CbTick ==
    /\ TickStep({<< >>})
    /\ \E reassigns \in BOOLEAN :
        /\ reassigns => cb.kind = "ref"
        /\ LET fn == CHOOSE f \in Callbacks : f # cb.option
               inTick == IF reassigns THEN assign(cb, fn) ELSE cb
           IN  cb' = IF obs'.fired
                     THEN [inTick EXCEPT !.invoked = onCompleteValue(inTick),
                                         !.latest = inTick.option,
                                         !.inOnTick = reassigns]
                     ELSE inTick
    /\ UNCHANGED run

CbNext ==
    \/ Start
    \/ Reassign
    \/ Flush
    \/ CbTick

CbSpec == CbInit /\ [][CbNext]_vars

----------------------------------------------------------------------------
(* Properties.                                                             *)

C2_ActiveImpliesPositive ==
    isActive => (timer /\ remaining > 0)

\* C2 (amended): between operations isActive holds exactly when the scheduler
\* is running; isActive with remaining = 0 is reachable, but only when the
\* countdown was constructed, started or reset with an initial value of 0, or
\* when onTick threw on the last tick.
C2_ActiveIffRunning ==
    /\ isActive <=> timer
    /\ (isActive /\ remaining = 0) => (base = 0 \/ obs.threw)

C2_Witness ==
    /\ lastOp = "start"
    /\ isActive
    /\ timer
    /\ remaining = 0
    /\ base = 0

\* C3: with every value of the initial countdown >= 0, remaining >= 0 in every
\* state, and also at the moment onTick observes it inside a tick.
C3_NonNegative ==
    /\ remaining >= 0
    /\ obs.decremented >= 0

C3_Witness ==
    /\ lastOp = "tick"
    /\ pre.remaining = 0
    /\ obs.decremented = 0
    /\ remaining = 0

\* C4: a tick sets remaining from r to max(r - 1, 0); after k ticks since the
\* value N was last set by construction, reset(), start() or stop(), remaining
\* is max(N - k, 0).
C4_TickCountsDown ==
    /\ remaining = Max(base - ticksSince, 0)
    /\ lastOp = "tick" => obs.decremented = Max(pre.remaining - 1, 0)

C4_Witness ==
    /\ lastOp = "tick"
    /\ base = 2
    /\ ticksSince = 2
    /\ pre.remaining = 1
    /\ remaining = 0

\* C5: start() leaves the controller Running with remaining equal to the
\* current initial value, whatever the state it was called in.
C5_StartRuns ==
    lastOp = "start" =>
        (isActive /\ timer /\ remaining = initialCountdown)

C5_Witness ==
    /\ lastOp = "start"
    /\ ~pre.isActive
    /\ pre.remaining = 0
    /\ obs.fired
    /\ isActive
    /\ remaining = initialCountdown
    /\ remaining > 0

\* C6: stop() leaves the controller Idle with remaining equal to the current
\* initial value, and no tick runs while the last of stop()/resume()/start()
\* called is stop().
C6_StopIdles ==
    [][ /\ lastOp' = "stop" =>
            (~isActive' /\ ~timer' /\ remaining' = initialCountdown')
        /\ halted = "stop" => tickSeq' = tickSeq ]_vars

C6_Witness ==
    /\ lastOp = "stop"
    /\ pre.isActive
    /\ pre.remaining < pre.initial
    /\ ~isActive
    /\ remaining = initialCountdown
    /\ halted = "stop"

\* C7: reset() sets remaining to the initial value as it is at the call, not
\* as it was at construction, and leaves the running state unchanged.
C7_ResetFrame ==
    lastOp = "reset" =>
        /\ remaining = initialCountdown
        /\ isActive = pre.isActive
        /\ timer = pre.timer

C7_Witness ==
    /\ lastOp = "reset"
    /\ initialCountdown # constructedWith
    /\ pre.remaining # initialCountdown
    /\ remaining = initialCountdown
    /\ isActive
    /\ pre.isActive

\* C8: resume() makes an Idle controller with remaining > 0 Running and leaves
\* remaining alone; with remaining = 0, or when already Running, it changes
\* neither isActive nor remaining.
C8_ResumeGuard ==
    lastOp = "resume" =>
        /\ remaining = pre.remaining
        /\ IF ~pre.isActive /\ pre.remaining > 0
           THEN isActive /\ timer
           ELSE isActive = pre.isActive /\ timer = pre.timer

C8_Witness ==
    /\ lastOp = "resume"
    /\ obs.fired
    /\ pre.remaining = 0
    /\ ~pre.isActive
    /\ ~isActive
    /\ remaining = 0

\* C9: after pause() or stop() was called, from outside a tick or from a
\* callback inside one, no further tick runs until resume() or start() is
\* called.
C9_NoTickWhileHalted ==
    [][ halted # "none" => tickSeq' = tickSeq ]_vars

C9_Witness ==
    /\ lastOp = "tick"
    /\ halted = "pause"
    /\ remaining > 0
    /\ ~timer
    /\ ~isActive

\* C10 (as stated): right after construction the controller is Running iff
\* immediate is true and the initial remaining value is > 0.
C10_RunningIffImmediateAndPositive ==
    lastOp = "construct" => (isActive <=> (immediate /\ remaining > 0))

\* C10 (amended): right after construction the controller is Running iff
\* immediate is true, whatever the initial value; remaining is the initial
\* value.
C10_RunningIffImmediate ==
    lastOp = "construct" =>
        /\ isActive <=> immediate
        /\ timer <=> immediate
        /\ remaining = initialCountdown

C10_Witness ==
    /\ lastOp = "construct"
    /\ immediate
    /\ remaining = 0
    /\ isActive

\* C11: built with immediate false (or omitted), the controller is not active
\* and no tick, onTick or onComplete happens before the first start() or
\* resume() call; until then remaining changes only when reset() (also the
\* one inside stop()) re-reads the initial value.
C11_IdleUntilStarted ==
    [][ neverStarted' =>
          /\ ~isActive' /\ ~timer'
          /\ tickSeq' = tickSeq /\ obs' = NoObs /\ completesInRun' = 0
          /\ \/ remaining' = remaining
             \/ lastOp' \in {"reset", "stop"} /\ remaining' = initialCountdown' ]_vars

C11_Witness ==
    /\ neverStarted
    /\ ~immediate
    /\ lastOp = "reset"
    /\ initialCountdown # constructedWith
    /\ remaining = initialCountdown
    /\ ~isActive
    /\ tickSeq = 0

C13_StartIgnoresArgument ==
    lastOp = "start" =>
        LET c == start([remaining |-> pre.remaining, isActive |-> pre.isActive,
                        timer |-> pre.timer], pre.initial)
        IN  /\ remaining = c.remaining
            /\ isActive = c.isActive
            /\ timer = c.timer
            /\ pre.arg # NoArg => (remaining = initialCountdown /\ isActive)

C13_Witness ==
    /\ lastOp = "start"
    /\ pre.arg # NoArg
    /\ pre.arg # initialCountdown
    /\ pre.arg # pre.remaining
    /\ remaining = initialCountdown
    /\ isActive

\* C14: a reset() right after stop() changes nothing: remaining is already
\* the initial value and isActive stays false, whatever the state stop() was
\* called in.
C14_ResetAfterStop ==
    (lastOp = "reset" /\ pre.mark = "stop") =>
        /\ remaining = pre.remaining
        /\ remaining = initialCountdown
        /\ isActive = pre.isActive
        /\ timer = pre.timer
        /\ ~isActive

C14_Witness ==
    /\ lastOp = "reset"
    /\ pre.mark = "stop"
    /\ obs.decremented = 1
    /\ ~obs.fired
    /\ remaining = 2
    /\ ~isActive

\* C17: pause() leaves remaining unchanged and the controller Idle; after
\* pause() at remaining = r > 0 and then resume(), the next tick takes
\* remaining to r - 1, not to a value counted from the initial value.
C17_PauseKeepsRemaining ==
    /\ lastOp = "pause" =>
           (remaining = pre.remaining /\ ~isActive /\ ~timer)
    /\ (lastOp = "resume" /\ pre.mark = "pause") =>
           remaining = pre.remaining
    /\ (lastOp = "tick" /\ pre.mark = "resumed") =>
           (pre.remaining > 0 /\ obs.decremented = pre.remaining - 1)

C17_Witness ==
    /\ lastOp = "tick"
    /\ pre.mark = "resumed"
    /\ pre.remaining = 1
    /\ pre.initial = 2
    /\ obs.decremented = 0
    /\ obs.fired

\* C16: in a tick remaining is decremented and clamped first, then onTick is
\* invoked once (on the completing tick too, with the scheduler still
\* running and remaining already decremented), and only then, if remaining
\* <= 0, the scheduler is paused and after that onComplete is invoked.
C16_TickOrder ==
    lastOp = "tick" =>
        /\ obs.decremented = Max(pre.remaining - 1, 0)
        /\ obs.onTickSawActive
        /\ obs.trace = IF obs.fired
                       THEN << "decrement", "onTick", "pause", "onComplete" >>
                       ELSE << "decrement", "onTick" >>
        /\ obs.fired => ~obs.activeAtFire

C16_Witness ==
    /\ lastOp = "tick"
    /\ pre.remaining = 1
    /\ obs.decremented = 0
    /\ obs.onTickSawActive
    /\ obs.fired
    /\ ~obs.activeAtFire
    /\ obs.trace = << "decrement", "onTick", "pause", "onComplete" >>

\* C18: when onTick calls reset(), start() or stop() on the tick that
\* decrements remaining to 0 and the initial value is > 0, the tick does not
\* invoke onComplete; after reset() or start() the scheduler keeps running
\* and the countdown goes on from the initial value.
C18_ResetInOnTick ==
    ( /\ lastOp = "tick"
      /\ ~obs.threw
      /\ obs.decremented = 0
      /\ obs.onTickCall \in {"reset", "start", "stop"}
      /\ pre.initial > 0 ) =>
        /\ ~obs.fired
        /\ completesInRun = 0 \/ obs.onTickCall # "start"
        /\ remaining = initialCountdown
        /\ base = initialCountdown /\ ticksSince = 0
        /\ obs.onTickCall \in {"reset", "start"} => (isActive /\ timer)
        /\ obs.onTickCall = "stop" => (~isActive /\ ~timer)

C18_Witness ==
    /\ lastOp = "tick"
    /\ pre.remaining = 1
    /\ obs.decremented = 0
    /\ obs.onTickCall = "reset"
    /\ ~obs.fired
    /\ remaining = 2
    /\ isActive

\* C19: when onTick throws on the tick that brings remaining to 0, the tick
\* ends with remaining = 0, the scheduler not paused and onComplete not
\* invoked; the next tick, from 0 to 0, pauses the scheduler and invokes
\* onComplete.
C19_ThrowThenComplete ==
    [][ /\ ( /\ tickSeq' # tickSeq
             /\ obs'.threw
             /\ obs'.decremented = 0
             /\ obs'.onTickCall = "none" ) =>
               /\ remaining' = 0
               /\ isActive' /\ timer'
               /\ ~obs'.fired
               /\ completesInRun' = completesInRun
        /\ ( /\ lastOp = "tick" /\ obs.threw /\ remaining = 0 /\ isActive
             /\ tickSeq' # tickSeq
             /\ ~obs'.threw
             /\ obs'.onTickCall = "none" ) =>
               /\ obs'.decremented = 0
               /\ obs'.fired
               /\ ~obs'.activeAtFire
               /\ obs'.remainingAtFire = 0 ]_vars

C19_Witness ==
    /\ lastOp = "tick"
    /\ pre.remaining = 0
    /\ pre.isActive
    /\ base = 1
    /\ ticksSince = 2
    /\ obs.fired
    /\ ~isActive
    /\ remaining = 0

\* C15: the onComplete invoked on the completing tick is the value most
\* recently assigned to the onComplete option, also when onTick of that very
\* tick assigned it and the watchEffect has not run since.
C15_InvokesLatest ==
    cb.invoked = cb.latest

C15_Witness ==
    /\ lastOp = "tick"
    /\ obs.fired
    /\ cb.kind = "ref"
    /\ cb.inOnTick
    /\ cb.pending
    /\ cb.invoked = cb.option
    /\ cb.invoked # "none"

====
